---- MODULE Spec2Model ----
(***************************************************************************)
(* Model of the two example handlers of the repository:                    *)
(*   - the Image Processor, src/test.py main()                             *)
(*   - the Greeter, src/notes/code_examples/python_function_example/main.py*)
(* A process is started with an environment (env) against an outside world *)
(* (world: what the HTTP client and the image library answer).  Both stay  *)
(* fixed along a behaviour, so that a second invocation of the program is  *)
(* an invocation with identical inputs.  Strings that the code parses or   *)
(* concatenates are sequences of one-character strings.                    *)
(***************************************************************************)
EXTENDS Integers, Sequences, FiniteSets, TLC

VARIABLES
    env,        \* the process environment: NAME, IMAGE_URL, WIDTH, HEIGHT
    world,      \* the collaborators' answers: which pipeline step raises
    pc,         \* position of the running main()
    image_url,  \* local of test.py main()
    width,      \* local of test.py main()
    height,     \* local of test.py main()
    image,      \* local of test.py main(): the PIL image being processed
    img_str,    \* local of test.py main(): base64 text of the JPEG
    stdout,     \* the JSON documents printed by this process, in order
    exit,       \* "running", "returned" (main returned) or "uncaught"
    exc,        \* the exception raised in this process, if any
    netlog,     \* the URLs this process issued an HTTP GET for
    ran,        \* the pipeline steps this process has begun, in order
    prev        \* what the previous process with the same inputs printed

vars == <<env, world, pc, image_url, width, height, image, img_str,
          stdout, exit, exc, netlog, ran, prev>>

(***************************************************************************)
(* Bounds of the model.                                                    *)
(***************************************************************************)
MaxDimLen == 2
MaxNameLen == 3

DimChars == {"1", "-", "a", " "}
NameChars == {"A", "b", " "}

RECURSIVE StringsUpTo(_, _)
StringsUpTo(chars, n) ==
    IF n = 0 THEN {<<>>}
    ELSE LET shorter == StringsUpTo(chars, n - 1)
         IN  shorter \cup {Append(s, c) : s \in shorter, c \in chars}

(***************************************************************************)
(* os.environ: a variable is unset, or set to a string (maybe empty).      *)
(***************************************************************************)
Unset == [set |-> FALSE, val |-> <<>>]
SetTo(s) == [set |-> TRUE, val |-> s]

EnvGet(var, default) == IF var.set THEN var.val ELSE default

(***************************************************************************)
(* Python's int(str): surrounding whitespace is stripped, one optional     *)
(* sign, then decimal digits, single underscores allowed between digits.   *)
(* Anything else raises ValueError.                                        *)
(***************************************************************************)
Digits == <<"0", "1", "2", "3", "4", "5", "6", "7", "8", "9">>
IsDigit(c) == \E i \in 1..Len(Digits) : Digits[i] = c
DigitVal(c) == (CHOOSE i \in 1..Len(Digits) : Digits[i] = c) - 1
IsSpace(c) == c \in {" ", "\t", "\n", "\r"}

RECURSIVE LStrip(_)
LStrip(s) == IF s # <<>> /\ IsSpace(Head(s)) THEN LStrip(Tail(s)) ELSE s

RECURSIVE RStrip(_)
RStrip(s) ==
    IF s # <<>> /\ IsSpace(s[Len(s)]) THEN RStrip(SubSeq(s, 1, Len(s) - 1)) ELSE s

Strip(s) == RStrip(LStrip(s))

Unsigned(t) == IF t # <<>> /\ Head(t) \in {"+", "-"} THEN Tail(t) ELSE t

ValidBody(u) ==
    /\ u # <<>>
    /\ \A i \in 1..Len(u) : IsDigit(u[i]) \/ u[i] = "_"
    /\ IsDigit(u[1]) /\ IsDigit(u[Len(u)])
    /\ \A i \in 1..(Len(u) - 1) : ~(u[i] = "_" /\ u[i + 1] = "_")

RECURSIVE BodyVal(_, _)
BodyVal(u, acc) ==
    IF u = <<>> THEN acc
    ELSE IF Head(u) = "_" THEN BodyVal(Tail(u), acc)
    ELSE BodyVal(Tail(u), 10 * acc + DigitVal(Head(u)))

IntOk(s) == ValidBody(Unsigned(Strip(s)))

IntVal(s) ==
    LET t == Strip(s)
        v == BodyVal(Unsigned(t), 0)
    IN  IF Head(t) = "-" THEN 0 - v ELSE v

(***************************************************************************)
(* base64.b64encode over a sequence of bytes.                              *)
(***************************************************************************)
B64Alphabet ==
    <<"A","B","C","D","E","F","G","H","I","J","K","L","M","N","O","P",
      "Q","R","S","T","U","V","W","X","Y","Z","a","b","c","d","e","f",
      "g","h","i","j","k","l","m","n","o","p","q","r","s","t","u","v",
      "w","x","y","z","0","1","2","3","4","5","6","7","8","9","+","/">>

B64Char(n) == B64Alphabet[n + 1]

RECURSIVE B64Encode(_)
B64Encode(bytes) ==
    IF bytes = <<>> THEN <<>>
    ELSE IF Len(bytes) = 1 THEN
        <<B64Char(bytes[1] \div 4), B64Char((bytes[1] % 4) * 16), "=", "=">>
    ELSE IF Len(bytes) = 2 THEN
        <<B64Char(bytes[1] \div 4),
          B64Char((bytes[1] % 4) * 16 + bytes[2] \div 16),
          B64Char((bytes[2] % 16) * 4), "=">>
    ELSE
        <<B64Char(bytes[1] \div 4),
          B64Char((bytes[1] % 4) * 16 + bytes[2] \div 16),
          B64Char((bytes[2] % 16) * 4 + bytes[3] \div 64),
          B64Char(bytes[3] % 64)>>
        \o B64Encode(SubSeq(bytes, 4, Len(bytes)))

(***************************************************************************)
(* The Image Processor, src/test.py.                                       *)
(***************************************************************************)
DefaultImageUrl ==
    "https://plus.unsplash.com/premium_photo-1747135794086-280753a24793"
DefaultDim == <<"3", "0", "0">>
GaussianRadius == 2

Urls == {"", "http://img.example/a.png"}

PipelineSteps == <<"fetch", "decode", "resize", "grayscale", "blur", "encode">>
StepSet == {PipelineSteps[i] : i \in 1..Len(PipelineSteps)}

\* What the collaborators answer: every step succeeds, or one of them raises,
\* or the server never answers the GET (no timeout is passed to requests.get).
Worlds == [fail : StepSet \cup {"none", "hang"}]

\* str(e) of the exception a collaborator raises in a step.
ExcMessage(step) ==
    CASE step = "fetch"     -> "404 Client Error: Not Found for url"
      [] step = "decode"    -> "cannot identify image file"
      [] step = "resize"    -> "height and width must be > 0"
      [] step = "grayscale" -> "image has wrong mode"
      [] step = "blur"      -> "cannot filter palette images"
      [] step = "encode"    -> "cannot write mode as JPEG"
      [] OTHER              -> ""

NoExc == [at |-> "none", msg |-> ""]
NoImage == [size |-> <<0, 0>>, mode |-> "", blur |-> 0]
\* The image the server answers with, once decoded, and its JPEG bytes.
SourceImage == [size |-> <<4, 3>>, mode |-> "RGB", blur |-> 0]
JpegBytes(img) == <<255, 216, 255, 224, img.size[1] % 256, img.size[2] % 256>>

NoPrev == [valid |-> FALSE, out |-> <<>>, exit |-> "running"]

NoUrlResponse == [error |-> "No image URL provided", status |-> "error"]

\* lines 60-63, with the status field left out
ErrorResponseNoStatus(msg) == [error |-> msg]

\* lines 60-63: the generic error object
ErrorResponse(msg) == [error |-> msg, status |-> "error"]

\* lines 45-54, with width and height exchanged
SuccessResponseSwapped(url, str, w, h) ==
    [original_url    |-> url,
     processed_image |-> str,
     transformations |-> <<"resize", "grayscale", "blur">>,
     dimensions      |-> [width |-> h, height |-> w],
     status          |-> "success"]

\* lines 45-54: the success object
SuccessResponse(url, str, w, h) ==
    [original_url    |-> url,
     processed_image |-> str,
     transformations |-> <<"resize", "grayscale", "blur">>,
     dimensions      |-> [width |-> w, height |-> h],
     status          |-> "success"]

FreshLocals ==
    /\ image_url = ""
    /\ width = 0
    /\ height = 0
    /\ image = NoImage
    /\ img_str = <<>>
    /\ stdout = <<>>
    /\ exit = "running"
    /\ exc = NoExc
    /\ netlog = <<>>
    /\ ran = <<>>

Init ==
    /\ env \in [NAME      : {Unset},
                IMAGE_URL : {Unset} \cup {SetTo(u) : u \in Urls},
                WIDTH     : {Unset} \cup {SetTo(s) : s \in StringsUpTo(DimChars, MaxDimLen)},
                HEIGHT    : {Unset} \cup {SetTo(s) : s \in StringsUpTo(DimChars, MaxDimLen)}]
    /\ world \in Worlds
    /\ pc = "start"
    /\ FreshLocals
    /\ prev = NoPrev

\* An exception raised inside the try block: the handler prints the error
\* object and main() returns.
Caught(step, msg) ==
    /\ exc' = [at |-> step, msg |-> msg]
    /\ stdout' = Append(stdout, ErrorResponse(msg))
    /\ exit' = "returned"
    /\ pc' = "done"

\* lines 10-12: the three reads of the environment, before the try block.
ReadEnv ==
    /\ pc = "start" /\ exit = "running"
    /\ LET w == EnvGet(env.WIDTH, DefaultDim)
           h == EnvGet(env.HEIGHT, DefaultDim)
       IN  IF IntOk(w) /\ IntOk(h)
           THEN /\ image_url' = EnvGet(env.IMAGE_URL, DefaultImageUrl)
                /\ width' = IntVal(w)
                /\ height' = IntVal(h)
                /\ pc' = "check"
                /\ UNCHANGED <<exit, exc>>
           ELSE \* ValueError outside any try: it leaves main()
                /\ image_url' = EnvGet(env.IMAGE_URL, DefaultImageUrl)
                /\ width' = IF IntOk(w) THEN IntVal(w) ELSE width
                /\ height' = height
                /\ exc' = [at |-> "int", msg |-> "invalid literal for int() with base 10"]
                /\ exit' = "uncaught"
                /\ pc' = "done"
    /\ UNCHANGED <<env, world, image, img_str, stdout, netlog, ran, prev>>

\* lines 14-19
CheckUrl ==
    /\ pc = "check"
    /\ IF image_url = ""
       THEN /\ stdout' = Append(stdout, NoUrlResponse)
            /\ exit' = "returned"
            /\ pc' = "done"
       ELSE /\ pc' = "fetch"
            /\ UNCHANGED <<stdout, exit>>
    /\ UNCHANGED <<env, world, image_url, width, height, image, img_str,
                   exc, netlog, ran, prev>>

\* line 23: requests.get sends the GET and blocks for the answer
FetchSend ==
    /\ pc = "fetch"
    /\ netlog' = Append(netlog, image_url)
    /\ ran' = Append(ran, "fetch")
    /\ pc' = "waiting"
    /\ UNCHANGED <<env, world, image_url, width, height, image, img_str,
                   stdout, exit, exc, prev>>

\* lines 23-24, where a failed fetch is swallowed and waited on again
FetchReturnSpins ==
    /\ pc = "waiting"
    /\ world.fail # "hang"
    /\ IF world.fail = "fetch"
       THEN /\ exc' = [at |-> "none", msg |-> ExcMessage("fetch")]
            /\ UNCHANGED <<pc, stdout, exit>>
       ELSE /\ pc' = "decode"
            /\ UNCHANGED <<stdout, exit, exc>>
    /\ UNCHANGED <<env, world, image_url, width, height, image, img_str,
                   netlog, ran, prev>>

\* lines 23-24: requests.get returns or raises, then raise_for_status
FetchReturn ==
    /\ pc = "waiting"
    /\ world.fail # "hang"
    /\ IF world.fail = "fetch"
       THEN Caught("fetch", ExcMessage("fetch"))
       ELSE /\ pc' = "decode"
            /\ UNCHANGED <<stdout, exit, exc>>
    /\ UNCHANGED <<env, world, image_url, width, height, image, img_str,
                   netlog, ran, prev>>

\* line 27: Image.open
Decode ==
    /\ pc = "decode"
    /\ ran' = Append(ran, "decode")
    /\ IF world.fail = "decode"
       THEN Caught("decode", ExcMessage("decode")) /\ UNCHANGED image
       ELSE /\ image' = SourceImage
            /\ pc' = "resize"
            /\ UNCHANGED <<stdout, exit, exc>>
    /\ UNCHANGED <<env, world, image_url, width, height, img_str, netlog, prev>>

\* line 31: image.resize; the library rejects a size that is not positive
Resize ==
    /\ pc = "resize"
    /\ ran' = Append(ran, "resize")
    /\ IF world.fail = "resize" \/ width < 1 \/ height < 1
       THEN Caught("resize", ExcMessage("resize")) /\ UNCHANGED image
       ELSE /\ image' = [image EXCEPT !.size = <<width, height>>]
            /\ pc' = "grayscale"
            /\ UNCHANGED <<stdout, exit, exc>>
    /\ UNCHANGED <<env, world, image_url, width, height, img_str, netlog, prev>>

\* line 34, where the blur of line 37 is then skipped
GrayscaleSkipsBlur ==
    /\ pc = "grayscale"
    /\ ran' = Append(ran, "grayscale")
    /\ IF world.fail = "grayscale"
       THEN Caught("grayscale", ExcMessage("grayscale")) /\ UNCHANGED image
       ELSE /\ image' = [image EXCEPT !.mode = "L"]
            /\ pc' = "encode"
            /\ UNCHANGED <<stdout, exit, exc>>
    /\ UNCHANGED <<env, world, image_url, width, height, img_str, netlog, prev>>

\* line 34: ImageOps.grayscale
Grayscale ==
    /\ pc = "grayscale"
    /\ ran' = Append(ran, "grayscale")
    /\ IF world.fail = "grayscale"
       THEN Caught("grayscale", ExcMessage("grayscale")) /\ UNCHANGED image
       ELSE /\ image' = [image EXCEPT !.mode = "L"]
            /\ pc' = "blur"
            /\ UNCHANGED <<stdout, exit, exc>>
    /\ UNCHANGED <<env, world, image_url, width, height, img_str, netlog, prev>>

\* line 37: image.filter(GaussianBlur(radius=2))
Blur ==
    /\ pc = "blur"
    /\ ran' = Append(ran, "blur")
    /\ IF world.fail = "blur"
       THEN Caught("blur", ExcMessage("blur")) /\ UNCHANGED image
       ELSE /\ image' = [image EXCEPT !.blur = GaussianRadius]
            /\ pc' = "encode"
            /\ UNCHANGED <<stdout, exit, exc>>
    /\ UNCHANGED <<env, world, image_url, width, height, img_str, netlog, prev>>

\* lines 40-42: image.save as JPEG, then base64
Encode ==
    /\ pc = "encode"
    /\ ran' = Append(ran, "encode")
    /\ IF world.fail = "encode"
       THEN Caught("encode", ExcMessage("encode")) /\ UNCHANGED img_str
       ELSE /\ img_str' = B64Encode(JpegBytes(image))
            /\ pc' = "respond"
            /\ UNCHANGED <<stdout, exit, exc>>
    /\ UNCHANGED <<env, world, image_url, width, height, image, netlog, prev>>

\* lines 45-57: build the response and print it; main() then returns
Respond ==
    /\ pc = "respond"
    /\ stdout' = Append(stdout, SuccessResponse(image_url, img_str, width, height))
    /\ exit' = "returned"
    /\ pc' = "done"
    /\ UNCHANGED <<env, world, image_url, width, height, image, img_str,
                   exc, netlog, ran, prev>>

\* A second invocation in a process that keeps what the first one printed.
ReinvokeKeepsOutput ==
    /\ pc = "done"
    /\ prev' = [valid |-> TRUE, out |-> stdout, exit |-> exit]
    /\ pc' = "start"
    /\ image_url' = ""
    /\ width' = 0
    /\ height' = 0
    /\ image' = NoImage
    /\ img_str' = <<>>
    /\ exit' = "running"
    /\ exc' = NoExc
    /\ netlog' = <<>>
    /\ ran' = <<>>
    /\ UNCHANGED <<env, world, stdout>>

\* The process has ended; the platform starts a fresh process of the same
\* program with the same environment against the same world.
Reinvoke ==
    /\ pc = "done"
    /\ prev' = [valid |-> TRUE, out |-> stdout, exit |-> exit]
    /\ pc' = "start"
    /\ image_url' = ""
    /\ width' = 0
    /\ height' = 0
    /\ image' = NoImage
    /\ img_str' = <<>>
    /\ stdout' = <<>>
    /\ exit' = "running"
    /\ exc' = NoExc
    /\ netlog' = <<>>
    /\ ran' = <<>>
    /\ UNCHANGED <<env, world>>

Next ==
    \/ ReadEnv
    \/ CheckUrl
    \/ FetchSend
    \/ FetchReturn
    \/ Decode
    \/ Resize
    \/ Grayscale
    \/ Blur
    \/ Encode
    \/ Respond
    \/ Reinvoke

Spec == Init /\ [][Next]_vars

\* Initial states for the termination check: every WIDTH of the bound, with
\* HEIGHT unset, an integer or not an integer.
InitFair ==
    /\ env \in [NAME      : {Unset},
                IMAGE_URL : {Unset} \cup {SetTo(u) : u \in Urls},
                WIDTH     : {Unset} \cup {SetTo(s) : s \in StringsUpTo(DimChars, MaxDimLen)},
                HEIGHT    : {Unset, SetTo(<<"1">>), SetTo(<<"a">>)}]
    /\ world \in Worlds
    /\ pc = "start"
    /\ FreshLocals
    /\ prev = NoPrev

\* A running interpreter executes its next statement; the calls into the
\* image library return or raise.  Only the GET may wait forever, and then
\* FetchReturn is not enabled.
SpecFair == InitFair /\ [][Next]_vars /\ WF_vars(Next)

(***************************************************************************)
(* The Greeter, src/notes/code_examples/python_function_example/main.py.   *)
(***************************************************************************)
World == <<"W", "o", "r", "l", "d">>
HelloPrefix == <<"H", "e", "l", "l", "o", ",", " ">>
Timestamp == "2023-01-16T12:34:56Z"
\* sys.version and sys.platform of the interpreter running the process
Runtime == [python_version |-> "3.11.4 (main)", platform |-> "linux"]

\* line 14, with a default that also replaces an empty NAME
GreeterNameOrDefault ==
    IF env.NAME.set /\ env.NAME.val # <<>> THEN env.NAME.val ELSE World

\* line 14: name = os.environ.get('NAME', 'World')
GreeterName == EnvGet(env.NAME, World)

\* line 17, without the closing exclamation mark
GreeterMessageNoBang(name) == HelloPrefix \o name

\* line 17: message = f"Hello, {name}!"
GreeterMessage(name) == HelloPrefix \o name \o <<"!">>

GreeterResponse(message) ==
    [message     |-> message,
     timestamp   |-> Timestamp,
     environment |-> Runtime]

InitGreeter ==
    /\ env \in [NAME      : {Unset} \cup {SetTo(s) : s \in StringsUpTo(NameChars, MaxNameLen)},
                IMAGE_URL : {Unset},
                WIDTH     : {Unset},
                HEIGHT    : {Unset}]
    /\ world = [fail |-> "none"]
    /\ pc = "start"
    /\ FreshLocals
    /\ prev = NoPrev

\* lines 9-31: the whole of the Greeter's main()
GreeterMain ==
    /\ pc = "start" /\ exit = "running"
    /\ stdout' = Append(stdout, GreeterResponse(GreeterMessage(GreeterName)))
    /\ exit' = "returned"
    /\ pc' = "done"
    /\ UNCHANGED <<env, world, image_url, width, height, image, img_str,
                   exc, netlog, ran, prev>>

NextGreeter ==
    \/ GreeterMain
    \/ Reinvoke

SpecGreeter == InitGreeter /\ [][NextGreeter]_vars

(***************************************************************************)
(* Properties.                                                             *)
(***************************************************************************)
Ended == pc = "done"
IsErrorObject(o) == DOMAIN o = {"error", "status"} /\ o.status = "error"
DimsParse == IntOk(EnvGet(env.WIDTH, DefaultDim)) /\ IntOk(EnvGet(env.HEIGHT, DefaultDim))
UrlEmpty == env.IMAGE_URL.set /\ env.IMAGE_URL.val = ""
AllStepsSucceeded == Ended /\ exit = "returned" /\ exc.at = "none" /\ netlog # <<>>
HelloWorld == <<"H", "e", "l", "l", "o", ",", " ", "W", "o", "r", "l", "d", "!">>

\* C1: every ended invocation of the Image Processor has printed exactly one
\* JSON object to standard output, whatever the environment and whatever the
\* collaborators answered.
C1_ExactlyOnePrinted == Ended => Len(stdout) = 1

\* C2: when WIDTH or HEIGHT is not an integer literal, the invocation ends by
\* main() returning, having printed the error object {error, status: "error"};
\* the parse failure does not leave main() as an uncaught exception.
C2_ParseFailureCaught ==
    (Ended /\ ~DimsParse) =>
        /\ exit = "returned"
        /\ Len(stdout) = 1
        /\ IsErrorObject(stdout[1])

\* C3: when IMAGE_URL is set to the empty string, for every WIDTH and HEIGHT,
\* the invocation prints exactly {error: "No image URL provided", status:
\* "error"}, returns, and has issued no HTTP request.
C3_NoUrlFirst ==
    (Ended /\ UrlEmpty) =>
        /\ exit = "returned"
        /\ stdout = <<[error |-> "No image URL provided", status |-> "error"]>>
        /\ netlog = <<>>

\* C4: when fetch, decode, resize, grayscale, blur or encode raises, the only
\* thing printed is an object with exactly the keys error and status, error
\* being the exception's message and status "error", and main() returns.
C4_PipelineFailureReported ==
    (exc.at \in StepSet) =>
        /\ Ended
        /\ exit = "returned"
        /\ Len(stdout) = 1
        /\ DOMAIN stdout[1] = {"error", "status"}
        /\ stdout[1].error = exc.msg
        /\ stdout[1].status = "error"

C4_Witness ==
    /\ exc.at = "encode"
    /\ netlog = <<"http://img.example/a.png">>
    /\ image.mode = "L"
    /\ stdout = <<[error |-> "cannot write mode as JPEG", status |-> "error"]>>

\* C5: when every pipeline step succeeded, the printed object has status
\* "success", original_url the resolved IMAGE_URL, dimensions the integers
\* WIDTH and HEIGHT denote (300 when unset), and transformations
\* resize, grayscale, blur in that order.
C5_SuccessObject ==
    AllStepsSucceeded =>
        /\ Len(stdout) = 1
        /\ stdout[1].status = "success"
        /\ stdout[1].original_url = EnvGet(env.IMAGE_URL, DefaultImageUrl)
        /\ stdout[1].dimensions.width = IntVal(EnvGet(env.WIDTH, DefaultDim))
        /\ stdout[1].dimensions.height = IntVal(EnvGet(env.HEIGHT, DefaultDim))
        /\ (~env.WIDTH.set => stdout[1].dimensions.width = 300)
        /\ (~env.HEIGHT.set => stdout[1].dimensions.height = 300)
        /\ stdout[1].transformations = <<"resize", "grayscale", "blur">>

C5_Witness ==
    /\ AllStepsSucceeded
    /\ env.WIDTH = SetTo(<<"1", "1">>)
    /\ ~env.HEIGHT.set
    /\ ~env.IMAGE_URL.set
    /\ stdout[1].status = "success"
    /\ stdout[1].dimensions = [width |-> 11, height |-> 300]
    /\ stdout[1].original_url = DefaultImageUrl

\* C6: the Greeter's message is "Hello, " followed by NAME and "!" for every
\* string NAME is set to, and "Hello, World!" when NAME is unset.
C6_GreeterMessage ==
    Ended =>
        /\ Len(stdout) = 1
        /\ (env.NAME.set =>
                stdout[1].message =
                    <<"H", "e", "l", "l", "o", ",", " ">> \o env.NAME.val \o <<"!">>)
        /\ (~env.NAME.set => stdout[1].message = HelloWorld)

C6_Witness ==
    /\ Ended
    /\ env.NAME = SetTo(<<"A", "b">>)
    /\ stdout[1].message = <<"H", "e", "l", "l", "o", ",", " ", "A", "b", "!">>

\* C7, as claimed: the Greeter answers "Hello, World!" both when NAME is unset
\* and when NAME is set to the empty string.
C7_DefaultOnUnsetOrEmpty ==
    (Ended /\ (~env.NAME.set \/ env.NAME.val = <<>>)) =>
        stdout[1].message = HelloWorld

\* C7, amended: the Greeter uses the default name "World" only when NAME is
\* unset; when NAME is set to the empty string the message is "Hello, !".
C7_DefaultOnlyWhenUnset ==
    Ended =>
        /\ (~env.NAME.set => stdout[1].message = HelloWorld)
        /\ (env.NAME = SetTo(<<>>) =>
                stdout[1].message = <<"H", "e", "l", "l", "o", ",", " ", "!">>)

C7_Witness ==
    /\ Ended
    /\ env.NAME = SetTo(<<>>)
    /\ stdout = <<GreeterResponse(<<"H", "e", "l", "l", "o", ",", " ", "!">>)>>

\* What claim C8 compares of an output: status, dimensions, transformations.
Observed(o) ==
    [status          |-> IF "status" \in DOMAIN o THEN o.status ELSE "",
     dimensions      |-> IF "dimensions" \in DOMAIN o
                         THEN o.dimensions ELSE [width |-> 0, height |-> 0],
     transformations |-> IF "transformations" \in DOMAIN o
                         THEN o.transformations ELSE <<>>]
ObservedAll(out) == [i \in 1..Len(out) |-> Observed(out[i])]

C9_FixedOrder ==
    /\ \E n \in 0..Len(PipelineSteps) : ran = SubSeq(PipelineSteps, 1, n)
    /\ Len(netlog) <= 1
    /\ (exc.at \in StepSet => ran # <<>> /\ ran[Len(ran)] = exc.at)
    /\ \A i \in 1..Len(stdout) :
            stdout[i].status = "success" =>
                /\ ran = PipelineSteps
                /\ exc.at = "none"
                /\ image = [size |-> <<width, height>>, mode |-> "L", blur |-> 2]

C9_Witness ==
    /\ Ended
    /\ ran = PipelineSteps
    /\ Len(stdout) = 1
    /\ stdout[1].status = "success"

FetchBlocked == pc = "waiting" /\ world.fail = "hang"

\* C10: an invocation whose fetch completes or fails terminates; when the
\* server never answers, the invocation ends before the fetch or stays in
\* the fetch, and nowhere else.
C10_TerminatesUnlessFetchBlocks ==
    /\ (world.fail # "hang") ~> Ended
    /\ (world.fail = "hang") ~> (Ended \/ FetchBlocked)

C10_Witness ==
    /\ Ended
    /\ netlog # <<>>
    /\ ran = <<"fetch", "decode">>
    /\ exc.at = "decode"

====
